---- MODULE Spec2Model ----
(***************************************************************************)
(* A model of scrobble-fix (src/src/main.rs): the scrobbler.log record     *)
(* parser Scrobble::new, the timestamp corrector Scrobble::fix, the        *)
(* serializer (Display for Scrobble) and the driver main.                  *)
(*                                                                         *)
(* Text is a sequence of one-character strings.  Integers of the program   *)
(* (u32, i64, epoch seconds) are exact signed decimal numerals             *)
(* [neg, mag], mag a sequence of digits without leading zeros, so that     *)
(* the 32 and 64 bit ranges of the program are the real ones.              *)
(***************************************************************************)
EXTENDS Integers, Sequences, FiniteSets

TAB == "\t"
NL == "\n"
CR == "\r"

DigitChars == <<"0", "1", "2", "3", "4", "5", "6", "7", "8", "9">>

IsDigit(c) == \E i \in 1..10 : DigitChars[i] = c

DigitVal(c) == (CHOOSE i \in 1..10 : DigitChars[i] = c) - 1

(***************************************************************************)
(* Exact integers.                                                         *)
(***************************************************************************)
RECURSIVE StripZeros(_)
StripZeros(m) ==
    IF Len(m) > 1 /\ m[1] = 0 THEN StripZeros(Tail(m)) ELSE m

MagLess(a, b) ==
    \/ Len(a) < Len(b)
    \/ /\ Len(a) = Len(b)
       /\ \E i \in 1..Len(a) :
            /\ a[i] < b[i]
            /\ \A j \in 1..(i - 1) : a[j] = b[j]

\* digit i of m counted from the least significant one, 0 beyond the length
DigitAt(m, i) == IF i <= Len(m) THEN m[Len(m) - i + 1] ELSE 0

RECURSIVE MagAddFrom(_, _, _, _)
MagAddFrom(a, b, i, carry) ==
    IF i > Len(a) /\ i > Len(b)
    THEN IF carry = 0 THEN <<>> ELSE <<carry>>
    ELSE LET s == DigitAt(a, i) + DigitAt(b, i) + carry
         IN  Append(MagAddFrom(a, b, i + 1, s \div 10), s % 10)

MagAdd(a, b) == StripZeros(MagAddFrom(a, b, 1, 0))

\* a - b for a >= b
RECURSIVE MagSubFrom(_, _, _, _)
MagSubFrom(a, b, i, borrow) ==
    IF i > Len(a)
    THEN <<>>
    ELSE LET d == DigitAt(a, i) - DigitAt(b, i) - borrow
         IN  Append(MagSubFrom(a, b, i + 1, IF d < 0 THEN 1 ELSE 0),
                    IF d < 0 THEN d + 10 ELSE d)

MagSub(a, b) == StripZeros(MagSubFrom(a, b, 1, 0))

MkInt(neg, mag) == [neg |-> neg /\ mag # <<0>>, mag |-> mag]

RECURSIVE NatDigits(_)
NatDigits(n) ==
    IF n < 10 THEN <<n>> ELSE Append(NatDigits(n \div 10), n % 10)

\* the numeral of a TLA+ integer
IntOf(n) == IF n < 0 THEN MkInt(TRUE, NatDigits(-n)) ELSE MkInt(FALSE, NatDigits(n))

IntLess(x, y) ==
    IF x.neg # y.neg THEN x.neg
    ELSE IF x.neg THEN MagLess(y.mag, x.mag)
    ELSE MagLess(x.mag, y.mag)

IntLeq(x, y) == x = y \/ IntLess(x, y)

IntAdd(x, y) ==
    IF x.neg = y.neg THEN MkInt(x.neg, MagAdd(x.mag, y.mag))
    ELSE IF MagLess(x.mag, y.mag) THEN MkInt(y.neg, MagSub(y.mag, x.mag))
    ELSE MkInt(x.neg, MagSub(x.mag, y.mag))

IntNeg(x) == MkInt(~x.neg, x.mag)


(***************************************************************************)
(* str::parse::<u32>() and str::parse::<i64>(): an optional sign ("+", and *)
(* "-" for a signed type only), then at least one ASCII digit and nothing  *)
(* else, and the value within the range of the type.                       *)
(***************************************************************************)
U32_MAX == MkInt(FALSE, <<4, 2, 9, 4, 9, 6, 7, 2, 9, 5>>)
I64_MAX == MkInt(FALSE, <<9, 2, 2, 3, 3, 7, 2, 0, 3, 6, 8, 5, 4, 7, 7, 5, 8, 0, 7>>)
I64_MIN == MkInt(TRUE, <<9, 2, 2, 3, 3, 7, 2, 0, 3, 6, 8, 5, 4, 7, 7, 5, 8, 0, 8>>)

Ok(v) == [tag |-> "Ok", val |-> v]
Err(m) == [tag |-> "Err", msg |-> m]
Panic(m) == [tag |-> "Panic", msg |-> m]

IsOk(r) == r.tag = "Ok"
IsErr(r) == r.tag = "Err"
IsPanic(r) == r.tag = "Panic"

None == <<>>
Some(v) == <<v>>

DigitsOf(s) == [i \in 1..Len(s) |-> DigitVal(s[i])]

ParseInt(s, signed, min, max) ==
    IF s = <<>> THEN Err("cannot parse integer from empty string")
    ELSE IF s \in {<<"+">>, <<"-">>} THEN Err("invalid digit found in string")
    ELSE LET neg == signed /\ s[1] = "-"
             body == IF s[1] = "+" \/ neg THEN Tail(s) ELSE s
         IN  IF \E i \in 1..Len(body) : ~IsDigit(body[i])
             THEN Err("invalid digit found in string")
             ELSE LET v == MkInt(neg, StripZeros(DigitsOf(body)))
                  IN  IF IntLess(max, v)
                      THEN Err("number too large to fit in target type")
                      ELSE IF IntLess(v, min)
                      THEN Err("number too small to fit in target type")
                      ELSE Ok(v)

ParseU32(s) == ParseInt(s, FALSE, IntOf(0), U32_MAX)
ParseI64(s) == ParseInt(s, TRUE, I64_MIN, I64_MAX)

\* to_string() of an integer
IntToString(v) ==
    LET ds == [i \in 1..Len(v.mag) |-> DigitChars[v.mag[i] + 1]]
    IN  IF v.neg THEN <<"-">> \o ds ELSE ds

(***************************************************************************)
(* parse_scrobble_tokens: nom's                                            *)
(*   terminated(separated_list1(tag("\t"), take_until("\t")), tag("\t"))   *)
(* Each parser returns the unconsumed rest and its output, or an error.    *)
(***************************************************************************)
HasTab(i) == \E k \in 1..Len(i) : i[k] = TAB

FirstTab(i) == CHOOSE k \in 1..Len(i) : i[k] = TAB /\ \A j \in 1..(k - 1) : i[j] # TAB

\* take_until("\t"): the text before the first tab, which is not consumed
TakeUntilTab(i) ==
    IF HasTab(i)
    THEN [tag |-> "Ok", rest |-> SubSeq(i, FirstTab(i), Len(i)),
          out |-> SubSeq(i, 1, FirstTab(i) - 1)]
    ELSE Err("TakeUntil")

\* tag("\t")
TagTab(i) ==
    IF Len(i) >= 1 /\ i[1] = TAB
    THEN [tag |-> "Ok", rest |-> Tail(i), out |-> <<TAB>>]
    ELSE Err("Tag")

\* the loop of separated_list1 after its first element
RECURSIVE SeparatedLoop(_, _)
SeparatedLoop(i, res) ==
    LET sep == TagTab(i)
    IN  IF IsErr(sep) THEN [tag |-> "Ok", rest |-> i, out |-> res]
        ELSE LET f == TakeUntilTab(sep.rest)
             IN  IF IsErr(f) THEN [tag |-> "Ok", rest |-> i, out |-> res]
                 ELSE SeparatedLoop(f.rest, Append(res, f.out))

SeparatedList1(i) ==
    LET first == TakeUntilTab(i)
    IN  IF IsErr(first) THEN first ELSE SeparatedLoop(first.rest, <<first.out>>)

parse_scrobble_tokens(input) ==
    LET list == SeparatedList1(input)
    IN  IF IsErr(list) THEN list
        ELSE LET t == TagTab(list.rest)
             IN  IF IsErr(t) THEN t
                 ELSE [tag |-> "Ok", rest |-> t.rest, tokens |-> list.out]

(***************************************************************************)
(* chrono.  A DateTime<Local> is an instant, kept as its epoch seconds;    *)
(* its UTC offset is the one the local zone has at that instant.  The      *)
(* local zone is the environment of the process: a zone here has one       *)
(* offset before the instant `at` and one from it on (equal for a zone     *)
(* that never changes its offset).                                         *)
(***************************************************************************)
SECS_PER_DAY == 86400

\* NaiveDateTime ranges from -262144-01-01T00:00:00 to 262143-12-31T23:59:59
NAIVE_MIN == MkInt(TRUE, <<8, 3, 3, 4, 6, 3, 2, 9, 3, 7, 6, 0, 0>>)
NAIVE_MAX == MkInt(FALSE, <<8, 2, 1, 0, 2, 9, 8, 4, 1, 2, 7, 9, 9>>)

InNaiveRange(secs) == IntLeq(NAIVE_MIN, secs) /\ IntLeq(secs, NAIVE_MAX)

\* TimeZone::offset_from_utc_datetime
OffsetFromUtc(tz, utc) == IF IntLess(utc, tz.at) THEN tz.before ELSE tz.after

\* TimeZone::from_local_datetime: the instants whose local time is `local`
LocalCandidates(tz, local) ==
    {utc \in {IntAdd(local, IntOf(-tz.before)), IntAdd(local, IntOf(-tz.after))} :
        IntAdd(utc, IntOf(OffsetFromUtc(tz, utc))) = local}

\* LocalResult::single(): Some only when exactly one instant has that local time
SingleLocal(tz, local) ==
    LET c == LocalCandidates(tz, local)
    IN  IF Cardinality(c) = 1 THEN Some(CHOOSE utc \in c : TRUE) ELSE None

\* Local.timestamp_opt(secs, 0): LocalResult::None outside NaiveDateTime's range
timestamp_opt(secs) == IF InNaiveRange(secs) THEN Some(secs) ELSE None

\* checked_add_days with the days added to the UTC date and time, and the sum
\* read as a local time
checked_add_days_of_utc(tz, utc, days) ==
    LET moved == IntAdd(utc, IntOf(days * SECS_PER_DAY))
    IN  IF ~InNaiveRange(moved) THEN None
        ELSE LET r == SingleLocal(tz, moved)
             IN  IF r # None /\ InNaiveRange(r[1]) THEN r ELSE None

\* DateTime::checked_add_days: the days are added to the local date and the
\* result is read back in the zone; None when out of range or when the zone
\* has no such local time or has it twice
checked_add_days(tz, utc, days) ==
    LET local == IntAdd(utc, IntOf(OffsetFromUtc(tz, utc)))
        moved == IntAdd(local, IntOf(days * SECS_PER_DAY))
    IN  IF ~InNaiveRange(moved) THEN None
        ELSE LET r == SingleLocal(tz, moved)
             IN  IF r # None /\ InNaiveRange(r[1]) THEN r ELSE None

(***************************************************************************)
(* The program's constants.                                                *)
(***************************************************************************)
\* DateTime::parse_from_rfc3339("2005-01-01T00:00:00Z")
SCROBBLE_CUTOFF == IntOf(1104537600)

SCROBBLE_DAYS_OFFSET == (365 * 22) + 215

(***************************************************************************)
(* Rating and its Display.                                                 *)
(***************************************************************************)
RatingToString(r) ==
    CASE r = "Listened" -> <<"L">>
      [] r = "Skipped" -> <<"S">>

(***************************************************************************)
(* Display for Scrobble: the eight fields with a tab between them.         *)
(***************************************************************************)
RECURSIVE Intersperse(_, _)
Intersperse(items, sep) ==
    IF Len(items) <= 1 THEN items
    ELSE <<items[1], sep>> \o Intersperse(Tail(items), sep)

RECURSIVE Concat(_)
Concat(parts) == IF parts = <<>> THEN <<>> ELSE parts[1] \o Concat(Tail(parts))

\* to_string that writes no tab before an absent track_id
to_string_trimmed(self) ==
    Concat(Intersperse(
        <<self.artist,
          self.album,
          self.track,
          IF self.track_position = None THEN <<>>
          ELSE IntToString(self.track_position[1]),
          IntToString(self.song_duration),
          RatingToString(self.rating),
          IntToString(self.timestamp)>>
        \o (IF self.track_id = None THEN <<>> ELSE <<self.track_id[1]>>),
        <<TAB>>))

to_string(self) ==
    Concat(Intersperse(
        <<self.artist,
          self.album,
          self.track,
          IF self.track_position = None THEN <<>>
          ELSE IntToString(self.track_position[1]),
          IntToString(self.song_duration),
          RatingToString(self.rating),
          IntToString(self.timestamp),
          IF self.track_id = None THEN <<>> ELSE self.track_id[1]>>,
        <<TAB>>))

(***************************************************************************)
(* Scrobble::new.  The fields of the struct are evaluated in the order     *)
(* written; tokens[k] panics when the line has no k-th token, `?` returns  *)
(* the error, and unwrap() of LocalResult::None panics.                    *)
(***************************************************************************)
HasToken(tokens, k) == k + 1 <= Len(tokens)

OutOfBounds == Panic("index out of bounds")

\* ParseTrackPosition with an empty field read as position 0
ParseTrackPosition_or_zero(tok) ==
    IF tok = <<>> THEN Ok(Some(IntOf(0)))
    ELSE LET p == ParseU32(tok) IN IF IsOk(p) THEN Ok(Some(p.val)) ELSE p

ParseTrackPosition(tok) ==
    IF tok = <<>> THEN Ok(None)
    ELSE LET p == ParseU32(tok) IN IF IsOk(p) THEN Ok(Some(p.val)) ELSE p

\* ParseRating with a default for an unknown code
ParseRating_or_default(tok) ==
    CASE tok = <<"S">> -> Ok("Skipped")
      [] OTHER -> Ok("Listened")

ParseRating(tok) ==
    CASE tok = <<"S">> -> Ok("Skipped")
      [] tok = <<"L">> -> Ok("Listened")
      [] OTHER -> Err("failed to parse rating")

ParseTimestamp(tok) ==
    LET secs == ParseI64(tok)
    IN  IF IsErr(secs) THEN secs
        ELSE IF timestamp_opt(secs.val) = None THEN Panic("No such local time")
        ELSE Ok(timestamp_opt(secs.val)[1])

ParseTrackId(rest) == IF rest = <<>> THEN None ELSE Some(rest)

Scrobble_new(input) ==
    LET p == parse_scrobble_tokens(input)
    IN  IF IsErr(p) THEN Err("nom error")
        ELSE
        LET tokens == p.tokens
            pos == ParseTrackPosition(tokens[4])
            dur == ParseU32(tokens[5])
            rating == ParseRating(tokens[6])
            ts == ParseTimestamp(tokens[7])
        IN  IF ~HasToken(tokens, 0) THEN OutOfBounds
            ELSE IF ~HasToken(tokens, 1) THEN OutOfBounds
            ELSE IF ~HasToken(tokens, 2) THEN OutOfBounds
            ELSE IF ~HasToken(tokens, 3) THEN OutOfBounds
            ELSE IF ~IsOk(pos) THEN pos
            ELSE IF ~HasToken(tokens, 4) THEN OutOfBounds
            ELSE IF ~IsOk(dur) THEN dur
            ELSE IF ~HasToken(tokens, 5) THEN OutOfBounds
            ELSE IF ~IsOk(rating) THEN rating
            ELSE IF ~HasToken(tokens, 6) THEN OutOfBounds
            ELSE IF ~IsOk(ts) THEN ts
            ELSE Ok([artist |-> tokens[1],
                     album |-> tokens[2],
                     track |-> tokens[3],
                     track_position |-> pos.val,
                     song_duration |-> dur.val,
                     rating |-> rating.val,
                     timestamp |-> ts.val,
                     track_id |-> ParseTrackId(p.rest)])

(***************************************************************************)
(* Scrobble::fix.                                                          *)
(***************************************************************************)
IsAfter(timestamp, cutoff) == IntLess(cutoff, timestamp)

\* fix without the test of the cutoff
fix_unconditional(tz, self, cutoff) ==
    LET updated_timestamp ==
            checked_add_days(tz, self.timestamp, SCROBBLE_DAYS_OFFSET)
    IN  IF updated_timestamp = None THEN Err("failed to apply offset")
        ELSE Ok([self EXCEPT !.timestamp = updated_timestamp[1]])

fix(tz, self, cutoff) ==
    IF IsAfter(self.timestamp, cutoff) THEN Ok(self)
    ELSE LET updated_timestamp ==
                 checked_add_days(tz, self.timestamp, SCROBBLE_DAYS_OFFSET)
         IN  IF updated_timestamp = None THEN Err("failed to apply offset")
             ELSE Ok([self EXCEPT !.timestamp = updated_timestamp[1]])

(***************************************************************************)
(* main.  HEADER is the raw string of three lines, each ended by a         *)
(* newline.                                                                *)
(***************************************************************************)
HEADER ==
    <<"#", "A", "U", "D", "I", "O", "S", "C", "R", "O", "B", "B", "L", "E", "R", "/", "1", ".", "1">> \o <<NL>> \o
    <<"#", "T", "Z", "/", "U", "N", "K", "N", "O", "W", "N">> \o <<NL>> \o
    <<"#", "C", "L", "I", "E", "N", "T", "/", "R", "o", "c", "k", "b", "o", "x", " ", "i", "p", "o", "d", "v", "i", "d", "e", "o", " ", "$", "R", "e", "v", "i", "s", "i", "o", "n", "$">>
    \o <<NL>>

\* str::lines(): the text split at "\n", a "\r" before the "\n" dropped with
\* it; a last line without "\n" is a line, an empty rest is not
RECURSIVE LinesOf(_)
LinesOf(t) ==
    IF t = <<>> THEN <<>>
    ELSE IF \E k \in 1..Len(t) : t[k] = NL
    THEN LET k == CHOOSE k \in 1..Len(t) : t[k] = NL /\ \A j \in 1..(k - 1) : t[j] # NL
             line == SubSeq(t, 1, k - 1)
         IN  <<IF line # <<>> /\ line[Len(line)] = CR
               THEN SubSeq(line, 1, Len(line) - 1) ELSE line>>
             \o LinesOf(SubSeq(t, k + 1, Len(t)))
    ELSE <<t>>

HEADER_LINES == 3

\* skip(2)
SkipHeader_short(ls) == SubSeq(ls, HEADER_LINES, Len(ls))

\* Iterator::skip(3)
SkipHeader(ls) == SubSeq(ls, HEADER_LINES + 1, Len(ls))

\* Result::map(|fixed| fixed.to_string())
MapToString(fixed) == IF IsOk(fixed) THEN Ok(to_string(fixed.val)) ELSE fixed

\* Result::and_then(|scrobble| scrobble.fix(cutoff).map(..))
AndThenFix(tz, scrobble, cutoff) ==
    IF IsOk(scrobble) THEN MapToString(fix(tz, scrobble.val, cutoff)) ELSE scrobble

\* the closure of map
MapLine(tz, line, cutoff) == AndThenFix(tz, Scrobble_new(line), cutoff)

(***************************************************************************)
(* Inputs.                                                                 *)
(***************************************************************************)
\* the most tab-separated fields a line given to Scrobble::new has
MaxFields == 9

\* the most record lines after the three header lines of a log
MaxRecords == 2

\* the texts field k of a line is drawn from
FieldChoices(k) ==
    CASE k = 1 -> {<<"a">>}
      [] k = 2 -> {<<>>}
      [] k = 3 -> {<<"c">>}
      [] k = 4 -> {<<>>, <<"3">>, <<"+", "0", "3">>, <<"x">>, <<"4", "2", "9", "4", "9", "6", "7", "2", "9", "6">>}
      [] k = 5 -> {<<"2", "1", "5">>, <<>>, <<"4", "2", "9", "4", "9", "6", "7", "2", "9", "5">>}
      [] k = 6 -> {<<"L">>, <<"S">>, <<"X">>, <<>>}
      [] k = 7 -> {<<"9", "7", "8", "3", "0", "7", "2", "0", "0">>, <<"1", "1", "0", "4", "5", "3", "7", "5", "9", "9">>, <<"1", "1", "0", "4", "5", "3", "7", "6", "0", "0">>, <<"1", "1", "0", "4", "5", "3", "7", "6", "0", "1">>,
                   <<"0">>, <<"-", "1">>, <<"a", "b", "c">>, <<>>,
                   <<"8", "2", "1", "0", "2", "9", "8", "4", "1", "2", "7", "9", "9">>, <<"8", "2", "1", "0", "2", "9", "8", "4", "1", "2", "8", "0", "0">>,
                   <<"9", "2", "2", "3", "3", "7", "2", "0", "3", "6", "8", "5", "4", "7", "7", "5", "8", "0", "7">>, <<"9", "2", "2", "3", "3", "7", "2", "0", "3", "6", "8", "5", "4", "7", "7", "5", "8", "0", "8">>}
      [] k = 8 -> {<<>>, <<"i", "d">>}
      [] OTHER -> {<<>>, <<"z">>}

\* the lines of exactly n fields
RECURSIVE LinesWith(_)
LinesWith(n) ==
    IF n = 1 THEN FieldChoices(1)
    ELSE {l \o <<TAB>> \o f : l \in LinesWith(n - 1), f \in FieldChoices(n)}

InputLines == {<<>>} \cup UNION {LinesWith(n) : n \in 1..MaxFields}

Zones ==
    {[before |-> 0, after |-> 0, at |-> IntOf(0)],
     [before |-> 7200, after |-> 10800, at |-> IntOf(1690673400)],
     [before |-> 10800, after |-> 7200, at |-> IntOf(1690677000)]}

Cutoffs == {SCROBBLE_CUTOFF, IntOf(978307200), NAIVE_MAX}

\* the lines a log is written from
HeaderLine == <<"#", "T", "Z", "/", "U", "N", "K", "N", "O", "W", "N">>
LogLines ==
    {<<"A", "r", "t", "i", "s", "t", TAB, "A", "l", "b", "u", "m", TAB, "T", "r", "a", "c", "k", TAB, "3", TAB, "2", "1", "5", TAB, "L", TAB, "9", "7", "8", "3", "0", "7", "2", "0", "0", TAB, "a", "b", "c", "1", "2", "3">>,
     <<"a", TAB, TAB, "c", TAB, TAB, "9", TAB, "S", TAB, "1", "1", "0", "4", "5", "3", "7", "6", "0", "1", TAB>>,
     <<"a", TAB, "b", TAB, "c", TAB, "1", TAB, "7", TAB, "L", TAB, "1", "1", "0", "4", "5", "3", "7", "6", "0", "0", TAB, "i">>,
     <<"a", TAB, "b", TAB, "c", TAB, "1", TAB, "7", TAB, "X", TAB, "0", TAB, "i">>,
     <<"a", TAB, "b", TAB, "c", TAB, "1", TAB, "7">>,
     HeaderLine}

Unset == [tag |-> "Unset"]

VARIABLES
    tz,         \* the local time zone of the process
    pc,         \* where the run is
    input,      \* the line given to Scrobble::new
    cutoff,     \* the cutoff given to Scrobble::fix
    parsed,     \* Scrobble::new(input)
    fixed,      \* parsed.fix(cutoff)
    text,       \* fixed.to_string()
    reparsed,   \* Scrobble::new(text)
    refixed,    \* fixed.fix(cutoff)
    entries,    \* the lines scrobbler.log was written from
    log,        \* the text of scrobbler.log
    remaining,  \* the lines the iterator of main has not yet mapped
    peeked,     \* Intersperse's peeked item
    needs_sep,  \* Intersperse's flag: a separator comes before the next item
    acc,        \* the String collect has built
    stdout      \* what main has printed

recordVars == <<input, cutoff, parsed, fixed, text, reparsed, refixed>>
mainVars == <<entries, log, remaining, peeked, needs_sep, acc, stdout>>
vars == <<tz, pc, recordVars, mainVars>>

MainIdle ==
    /\ entries = <<>>
    /\ log = <<>>
    /\ remaining = <<>>
    /\ peeked = None
    /\ needs_sep = FALSE
    /\ acc = <<>>
    /\ stdout = <<>>

(***************************************************************************)
(* One record through Scrobble::new, fix, to_string, and then the text     *)
(* through Scrobble::new and the corrected record through fix once more.   *)
(***************************************************************************)
Init ==
    /\ tz \in Zones
    /\ pc = "start"
    /\ input \in InputLines
    /\ cutoff = Unset
    /\ parsed = Unset
    /\ fixed = Unset
    /\ text = Unset
    /\ reparsed = Unset
    /\ refixed = Unset
    /\ MainIdle

New ==
    /\ pc = "start"
    /\ parsed' = Scrobble_new(input)
    /\ pc' = IF IsOk(parsed') THEN "parsed" ELSE "failed"
    /\ UNCHANGED <<tz, input, cutoff, fixed, text, reparsed, refixed, mainVars>>

Fix ==
    /\ pc = "parsed"
    /\ \E c \in Cutoffs :
        /\ cutoff' = c
        /\ fixed' = fix(tz, parsed.val, c)
    /\ pc' = IF IsOk(fixed') THEN "fixed" ELSE "failed"
    /\ UNCHANGED <<tz, input, parsed, text, reparsed, refixed, mainVars>>

Serialize ==
    /\ pc = "fixed"
    /\ text' = to_string(fixed.val)
    /\ pc' = "serialized"
    /\ UNCHANGED <<tz, input, cutoff, parsed, fixed, reparsed, refixed, mainVars>>

Reparse ==
    /\ pc = "serialized"
    /\ reparsed' = Scrobble_new(text)
    /\ pc' = "reparsed"
    /\ UNCHANGED <<tz, input, cutoff, parsed, fixed, text, refixed, mainVars>>

FixAgain ==
    /\ pc = "reparsed"
    /\ refixed' = fix(tz, fixed.val, cutoff)
    /\ pc' = "done"
    /\ UNCHANGED <<tz, input, cutoff, parsed, fixed, text, reparsed, mainVars>>

Next == New \/ Fix \/ Serialize \/ Reparse \/ FixAgain

Spec == Init /\ [][Next]_vars

(***************************************************************************)
(* main: the log is read, its lines after the first three are mapped,      *)
(* interspersed with newlines and collected, and the result is printed.    *)
(***************************************************************************)
\* the text written from lines: every line ended by eol, the last one
\* possibly not
LogText(ls, eol, last_eol) ==
    Concat([i \in 1..Len(ls) |->
              IF i = Len(ls) /\ ~last_eol THEN ls[i] ELSE ls[i] \o eol])

SeqsUpTo(S, n) == UNION {[1..k -> S] : k \in 0..n}

InitMain ==
    /\ tz \in Zones
    /\ pc = "start"
    /\ input = Unset
    /\ cutoff = Unset
    /\ parsed = Unset
    /\ fixed = Unset
    /\ text = Unset
    /\ reparsed = Unset
    /\ refixed = Unset
    /\ \E head \in SeqsUpTo({HeaderLine, CHOOSE l \in LogLines : IsOk(Scrobble_new(l))},
                             HEADER_LINES),
          body \in SeqsUpTo(LogLines, MaxRecords),
          eol \in {<<NL>>, <<CR, NL>>},
          last_eol \in BOOLEAN :
        /\ Len(head) < HEADER_LINES => body = <<>>
        /\ entries = head \o body
        /\ ~last_eol => entries # <<>> /\ entries[Len(entries)] # <<>>
        /\ log = LogText(entries, eol, last_eol)
    /\ remaining = <<>>
    /\ peeked = None
    /\ needs_sep = FALSE
    /\ acc = <<>>
    /\ stdout = <<>>

\* std::fs::read_to_string("scrobbler.log")?, and the lazy iterator is built
ReadLog ==
    /\ pc = "start"
    /\ remaining' = SkipHeader(LinesOf(log))
    /\ pc' = "collect"
    /\ UNCHANGED <<tz, recordVars, entries, log, peeked, needs_sep, acc, stdout>>

\* read_to_string fails and `?` returns the error from main
ReadFails ==
    /\ pc = "start"
    /\ pc' = "io_error"
    /\ UNCHANGED <<tz, recordVars, mainVars>>

\* Intersperse::next with needs_sep set and an item to peek: the next line is
\* mapped for the peek, and the separator Ok("\n") is collected
YieldSeparator ==
    /\ pc = "collect"
    /\ needs_sep
    /\ remaining # <<>>
    /\ \E item \in {MapLine(tz, remaining[1], SCROBBLE_CUTOFF)} :
           IF IsPanic(item)
           THEN /\ pc' = "panicked"
                /\ UNCHANGED <<peeked, needs_sep, acc>>
           ELSE /\ peeked' = Some(item)
                /\ needs_sep' = FALSE
                /\ acc' = acc \o <<NL>>
                /\ pc' = pc
    /\ remaining' = Tail(remaining)
    /\ UNCHANGED <<tz, recordVars, entries, log, stdout>>

\* Intersperse::next otherwise, with an item left: the peeked item, or the next
\* line mapped; collect appends an Ok and stops at an Err, which unwrap() panics on
YieldItem ==
    /\ pc = "collect"
    /\ ~needs_sep
    /\ peeked # None \/ remaining # <<>>
    /\ \E item \in {IF peeked # None THEN peeked[1]
                      ELSE MapLine(tz, remaining[1], SCROBBLE_CUTOFF)} :
           /\ pc' = IF IsOk(item) THEN pc ELSE "panicked"
           /\ acc' = IF IsOk(item) THEN acc \o item.val ELSE acc
           /\ needs_sep' = IF IsPanic(item) THEN needs_sep ELSE TRUE
    /\ remaining' = IF peeked # None THEN remaining ELSE Tail(remaining)
    /\ peeked' = None
    /\ UNCHANGED <<tz, recordVars, entries, log, stdout>>

\* the iterator is exhausted: collect returns Ok(acc), unwrap() gives the String
\* and println! writes the header, the String and a newline
Println ==
    /\ pc = "collect"
    /\ peeked = None
    /\ remaining = <<>>
    /\ stdout' = HEADER \o acc \o <<NL>>
    /\ pc' = "done"
    /\ UNCHANGED <<tz, recordVars, entries, log, remaining, peeked, needs_sep, acc>>

NextMain == ReadLog \/ ReadFails \/ YieldSeparator \/ YieldItem \/ Println

SpecMain == InitMain /\ [][NextMain]_vars

(***************************************************************************)
(* What the properties are stated with: the fields of a line as the wire   *)
(* format defines them, independently of the parser above.                 *)
(***************************************************************************)
TabCount(line) == Cardinality({k \in 1..Len(line) : line[k] = TAB})

\* the position of the n-th tab of a line that has one
NthTab(line, n) ==
    CHOOSE k \in 1..Len(line) :
        /\ line[k] = TAB
        /\ Cardinality({j \in 1..k : line[j] = TAB}) = n

\* field k of a line: the text between tab k - 1 and tab k (or the end)
FieldOf(line, k) ==
    LET from == IF k = 1 THEN 1 ELSE NthTab(line, k - 1) + 1
        to == IF TabCount(line) >= k THEN NthTab(line, k) - 1 ELSE Len(line)
    IN  SubSeq(line, from, to)

\* all the text after the n-th tab
AfterTab(line, n) == SubSeq(line, NthTab(line, n) + 1, Len(line))

NewDone == parsed.tag # "Unset"
FixDone == fixed.tag # "Unset"
SerializeDone == pc \in {"serialized", "reparsed", "done"}
ReparseDone == reparsed.tag # "Unset"
FixAgainDone == refixed.tag # "Unset"

SameButTimestamp(a, b) == [a EXCEPT !.timestamp = b.timestamp] = b

\* 8245 days in seconds
ShiftSeconds == IntOf(8245 * 86400)

(***************************************************************************)
(* C1.  A record whose timestamp is at or after the cutoff, the cutoff     *)
(* itself included, is returned by fix as Ok with every field unchanged.   *)
(* The code compares with `>`, so a record exactly at the cutoff is        *)
(* shifted: TLC finds this violated.                                       *)
(***************************************************************************)
C1_UnchangedAtOrAfterCutoff ==
    (FixDone /\ IntLeq(cutoff, parsed.val.timestamp)) => fixed = Ok(parsed.val)

(***************************************************************************)
(* C2.  As claimed: for any record and any cutoff, fix applied to the      *)
(* result of fix returns that result again.  Violated: a record more than  *)
(* 8245 days before the cutoff is shifted by both passes.                  *)
(***************************************************************************)
C2_FixIdempotent == FixAgainDone => refixed = fixed

(***************************************************************************)
(* C2, amended.  fix applied to the result of fix returns that result      *)
(* again exactly when the once-corrected timestamp is after the cutoff;    *)
(* otherwise the second pass shifts the record again, or fails.            *)
(***************************************************************************)
C2_IdempotentOnceAfterCutoff ==
    FixAgainDone => (refixed = fixed <=> IntLess(cutoff, fixed.val.timestamp))

C2_Witness ==
    /\ FixAgainDone
    /\ IntLess(parsed.val.timestamp, cutoff)
    /\ fixed.val.timestamp # parsed.val.timestamp
    /\ refixed = fixed

(***************************************************************************)
(* C3.  As claimed: a record before the cutoff comes back from fix with    *)
(* its epoch seconds advanced by exactly 8245 * 86400 and every other      *)
(* field unchanged.  Violated where the local zone changes its offset      *)
(* between the two local times.                                            *)
(***************************************************************************)
C3_ShiftedByExactSeconds ==
    (FixDone /\ IntLess(parsed.val.timestamp, cutoff)) =>
        /\ IsOk(fixed)
        /\ fixed.val.timestamp = IntAdd(parsed.val.timestamp, ShiftSeconds)
        /\ SameButTimestamp(parsed.val, fixed.val)

(***************************************************************************)
(* C3, amended.  For a record before the cutoff, a record returned by fix  *)
(* has every other field unchanged and its local wall-clock time advanced  *)
(* by 8245 days: its epoch seconds are the record's plus 8245 * 86400      *)
(* plus the zone's UTC offset at the record's instant minus its offset at  *)
(* the result.  In a zone of constant offset fix returns such a record     *)
(* whenever the result is in range, and the advance is exactly             *)
(* 8245 * 86400 seconds.                                                   *)
(***************************************************************************)
C3_ShiftedByLocalDays ==
    (FixDone /\ IntLess(parsed.val.timestamp, cutoff)) =>
        /\ IsOk(fixed) =>
            /\ SameButTimestamp(parsed.val, fixed.val)
            /\ fixed.val.timestamp =
                   IntAdd(IntAdd(parsed.val.timestamp, ShiftSeconds),
                          IntOf(OffsetFromUtc(tz, parsed.val.timestamp)
                                - OffsetFromUtc(tz, fixed.val.timestamp)))
        /\ (tz.before = tz.after
            /\ IntLeq(IntAdd(parsed.val.timestamp, ShiftSeconds),
                      IntAdd(NAIVE_MAX, IntOf(-tz.after)))) =>
            /\ IsOk(fixed)
            /\ fixed.val.timestamp = IntAdd(parsed.val.timestamp, ShiftSeconds)

C3_Witness ==
    /\ FixDone
    /\ cutoff = SCROBBLE_CUTOFF
    /\ tz.before = tz.after
    /\ parsed.val.timestamp = IntOf(978307200)
    /\ parsed.val.rating = "Listened"
    /\ IsOk(fixed)
    /\ fixed.val.timestamp = IntOf(978307200 + 8245 * 86400)
    /\ fixed.val.rating = "Listened"

(***************************************************************************)
(* C4.  A line with fewer than 7 tab-terminated fields makes               *)
(* Scrobble::new return an Err: no panic, no record.  The code indexes     *)
(* tokens[k] without checking the length, so it panics: TLC finds this     *)
(* violated.                                                               *)
(***************************************************************************)
C4_TruncatedIsErr == (NewDone /\ TabCount(input) < 7) => IsErr(parsed)

(***************************************************************************)
(* C5.  Round trip: the text of a record that Scrobble::new produced, and  *)
(* the text of its corrected form, parse with Scrobble::new to a record    *)
(* equal to it field for field.                                            *)
(***************************************************************************)
C5_RoundTrip ==
    /\ ReparseDone => reparsed = fixed
    /\ (NewDone /\ IsOk(parsed)) => Scrobble_new(to_string(parsed.val)) = parsed

C5_Witness ==
    /\ ReparseDone
    /\ reparsed = fixed
    /\ fixed.val.timestamp # parsed.val.timestamp
    /\ fixed.val.track_position # None
    /\ fixed.val.track_id # None
    /\ text # input

C7_TrackIdIsRemainder ==
    (NewDone /\ IsOk(parsed)) =>
        parsed.val.track_id =
            IF AfterTab(input, 7) = <<>> THEN None ELSE Some(AfterTab(input, 7))

(***************************************************************************)
(* C8.  With at least 7 tab-terminated fields and fields 4 to 6 decoding,  *)
(* a 7th field that is a base-10 integer of the signed 64-bit range gives  *)
(* a record whose timestamp is written back as that integer, and any       *)
(* other 7th field gives an Err; never a panic.  The code unwraps          *)
(* timestamp_opt, which is None outside chrono's range: TLC finds this     *)
(* violated.                                                               *)
(***************************************************************************)
C8_TimestampTotal ==
    (/\ NewDone
     /\ TabCount(input) >= 7
     /\ IsOk(ParseTrackPosition(FieldOf(input, 4)))
     /\ IsOk(ParseU32(FieldOf(input, 5)))
     /\ IsOk(ParseRating(FieldOf(input, 6)))) =>
        IF IsOk(ParseI64(FieldOf(input, 7)))
        THEN /\ IsOk(parsed)
             /\ ParseI64(IntToString(parsed.val.timestamp))
                    = ParseI64(FieldOf(input, 7))
        ELSE IsErr(parsed)

(***************************************************************************)
(* C9.  With at least 7 tab-terminated fields and fields 4 and 5           *)
(* decoding, a 6th field other than "L" and "S" gives the Err of the       *)
(* rating and never a record; "L" gives Listened and "S" gives Skipped.    *)
(***************************************************************************)
C9_RatingRejected ==
    (/\ NewDone
     /\ TabCount(input) >= 7
     /\ IsOk(ParseTrackPosition(FieldOf(input, 4)))
     /\ IsOk(ParseU32(FieldOf(input, 5)))) =>
        /\ FieldOf(input, 6) \notin {<<"L">>, <<"S">>} =>
               parsed = Err("failed to parse rating")
        /\ IsOk(parsed) =>
               \/ FieldOf(input, 6) = <<"L">> /\ parsed.val.rating = "Listened"
               \/ FieldOf(input, 6) = <<"S">> /\ parsed.val.rating = "Skipped"

C9_Witness ==
    /\ NewDone
    /\ TabCount(input) >= 7
    /\ FieldOf(input, 4) = <<"3">>
    /\ FieldOf(input, 6) = <<"X">>
    /\ IsOk(ParseI64(FieldOf(input, 7)))
    /\ parsed = Err("failed to parse rating")

(***************************************************************************)
(* C10.  main is all or nothing and keeps the order: something is printed  *)
(* only when every line after the first three of the log parses and        *)
(* corrects, and it is the header followed by the texts of the corrected   *)
(* records, in the order of the lines, one per line, with one newline      *)
(* between them; when a line fails the run ends with nothing printed.      *)
(***************************************************************************)
RecordLines == SubSeq(entries, 4, Len(entries))

Expected(k) == MapLine(tz, RecordLines[k], SCROBBLE_CUTOFF)

RECURSIVE JoinedFrom(_)
JoinedFrom(k) ==
    IF k > Len(RecordLines) THEN <<>>
    ELSE Expected(k).val
         \o (IF k < Len(RecordLines) THEN <<NL>> ELSE <<>>)
         \o JoinedFrom(k + 1)

AllLinesSucceed == \A k \in 1..Len(RecordLines) : IsOk(Expected(k))

C10_AllOrNothingInOrder ==
    /\ pc = "done" =>
        /\ AllLinesSucceed
        /\ stdout = HEADER \o JoinedFrom(1) \o <<NL>>
    /\ pc # "done" => stdout = <<>>
    /\ (pc \in {"done", "panicked"} /\ ~AllLinesSucceed) => pc = "panicked"
    /\ (pc = "panicked") => ~AllLinesSucceed

C10_Witness ==
    /\ pc = "done"
    /\ Len(RecordLines) = 2
    /\ RecordLines[1] # RecordLines[2]
    /\ stdout = HEADER \o Expected(1).val \o <<NL>> \o Expected(2).val \o <<NL>>

====
